---- MODULE Spec2Model ----
(***************************************************************************)
(* facet: dependency-aware start/stop of services (AsyncioServiceMixin).   *)
(*                                                                         *)
(* Every call of __start / __stop is a frame (a coroutine).  The root      *)
(* frame of a scope runs in the caller's task; a dependency's frame is a   *)
(* task made by create_task.  An action is what one frame does between two *)
(* suspension points of the event loop.                                    *)
(***************************************************************************)
EXTENDS Integers, Sequences, FiniteSets, TLC

\* ------------------------------------------------------------------ bounds

\* How many times the callers may enter (async with) a service, in all.
MaxEnters == 2

\* ------------------------------------------------------------- the services

Node == {"A", "B1", "B2", "C"}
Scope == {"s1", "s2"}

\* The value of an attribute that is None.
None == 0

\* tests: class A / B / C (the diamond): A -> [B1, B2], B1 -> [C], B2 -> [C].
Diamond ==
  [A |-> << {"B1"}, {"B2"} >>, B1 |-> << {"C"} >>, B2 |-> << {"C"} >>, C |-> << >>]

\* tests: Root([valid, broken]) / Root([broken, valid]): two groups in sequence.
Chain ==
  [A |-> << {"B1"}, {"B2"} >>, B1 |-> << >>, B2 |-> << >>, C |-> << >>]

\* tests: Root([[broken, valid]]) / Parallel: one group started concurrently.
Fan ==
  [A |-> << {"B1", "B2"} >>, B1 |-> << >>, B2 |-> << >>, C |-> << >>]

\* A service under a service under the root: A(B1(C)).
Line ==
  [A |-> << {"B1"} >>, B1 |-> << {"C"} >>, B2 |-> << >>, C |-> << >>]

Graphs == {Diamond, Chain, Fan, Line}

\* What the user's start() hook of a service does:
\*   "ok"   Simple.start: returns,
\*   "fail" StartFailed.start: raises,
\*   "slow_fail" DelayedStartFailed.start: suspends once, then raises,
\*   "slow_ok"   suspends once, then returns,
\*   "task_forever" WithTask.start: add_task of a task that runs until cancelled,
\*   "task_fails"   WithTaskException.start: add_task of a task that raises,
\*   "task_returns" add_task of a task that returns.
HookKinds == {"ok", "fail", "slow_fail", "slow_ok", "task_forever", "task_fails",
              "task_returns"}

\* What the user's stop() hook does: "ok" returns, "fail" raises, "slow"
\* suspends once and then returns.
StopKinds == {"ok", "fail", "slow"}

Plain == [n \in Node |-> "ok"]

\* What the body of the callers' async with does: "pass", or "wait": it may
\* await service.wait() (run() is such a body), or "task": it may also make
\* a task of service.wait() and end while that task waits.
Config(g, h, st) ==
  [deps |-> g, hook |-> h, stop |-> st,
   body |-> IF \E n \in Node : h[n] \in {"task_forever", "task_fails", "task_returns"}
              THEN "wait" ELSE "pass",
   timeout |-> {}]

\* graceful_shutdown_timeout: the services in T have one short enough to
\* elapse during their shutdown; that of the others never does.
TimedConfig(g, h, st, T) == [Config(g, h, st) EXCEPT !.timeout = T]

\* The same with a body that makes a task of service.wait().
TaskConfig(g, h, st) == [Config(g, h, st) EXCEPT !.body = "task"]

\* The same with a body that never awaits service.wait().
PassConfig(g, h, st) == [Config(g, h, st) EXCEPT !.body = "pass"]

\* The configurations of the run: a graph and the hooks of every service,
\* as the tests build them.
Configs ==
  { \* test_diamond_dependencies, test_c_does_not_stops, test_start_groups
    Config(Diamond, Plain, Plain),
    Config(Fan, Plain, Plain),
    \* test_start_failed, test_start_exception
    Config(Diamond, [Plain EXCEPT !["A"] = "fail"], Plain),
    Config(Diamond, [Plain EXCEPT !["C"] = "fail"], Plain),
    Config(Diamond, [Plain EXCEPT !["B2"] = "fail"], Plain),
    \* test_start_failed_later, test_start_failed_earlier
    Config(Chain, [Plain EXCEPT !["B2"] = "fail"], Plain),
    Config(Chain, [Plain EXCEPT !["B1"] = "fail"], Plain),
    \* test_start_failed_parallel_later, and its variations
    Config(Fan, [Plain EXCEPT !["B1"] = "slow_fail"], Plain),
    Config(Fan, [Plain EXCEPT !["B1"] = "fail"], Plain),
    Config(Fan, [Plain EXCEPT !["B1"] = "fail", !["B2"] = "slow_ok"], Plain),
    Config(Fan, [Plain EXCEPT !["B1"] = "slow_fail", !["B2"] = "slow_ok"], Plain),
    \* test_added_task_cancelation, test_task_exception
    Config(Chain, [Plain EXCEPT !["A"] = "task_forever"], Plain),
    Config(Chain, [Plain EXCEPT !["A"] = "task_fails"], Plain),
    Config(Diamond, [Plain EXCEPT !["C"] = "task_fails"], Plain),
    Config(Chain, [Plain EXCEPT !["B1"] = "task_forever", !["B2"] = "fail"], Plain),
    \* a stop() that raises
    Config(Diamond, Plain, [Plain EXCEPT !["B2"] = "fail"]),
    Config(Chain, Plain, [Plain EXCEPT !["A"] = "fail"]),
    Config(Chain, [Plain EXCEPT !["A"] = "task_forever"], [Plain EXCEPT !["A"] = "fail"]),
    \* Root([valid, broken]) with a valid whose stop() raises: a rollback that fails
    Config(Chain, [Plain EXCEPT !["B2"] = "fail"], [Plain EXCEPT !["B1"] = "fail"]),
    \* a shutdown that takes longer than graceful_shutdown_timeout: in the
    \* service's stop(), in the wait for its tasks, in the stop of a dependency
    TimedConfig(Chain, Plain, [Plain EXCEPT !["A"] = "slow"], {"A"}),
    TimedConfig(Chain, [Plain EXCEPT !["A"] = "task_forever"], Plain, {"A"}),
    TimedConfig(Chain, Plain, [Plain EXCEPT !["B2"] = "slow"], {"A"}),
    \* two tasks that raise, of services of one root; a task that returns
    PassConfig(Chain, [Plain EXCEPT !["A"] = "task_fails", !["B1"] = "task_fails"], Plain),
    PassConfig(Chain, [Plain EXCEPT !["A"] = "task_returns"], Plain),
    \* a task that raises, of a service whose stop() raises
    PassConfig(Chain, [Plain EXCEPT !["A"] = "task_fails"], [Plain EXCEPT !["A"] = "fail"]),
    \* a task that raises, in a service two levels under the root
    PassConfig(Line, [Plain EXCEPT !["C"] = "task_fails"], Plain),
    \* a task that awaits wait() and outlives the async with
    TaskConfig(Chain, [Plain EXCEPT !["A"] = "task_fails"], Plain) }

\* --------------------------------------------------------------- the state

VARIABLES
  cfg,          \* the configuration of this run (fixed by Init)
  running,      \* [Node -> BOOLEAN]   self.__running
  dependents,   \* [Node -> Int]       self.__dependents
  exit_point,   \* [Node -> 0..]       self.__exit_point: None or a Future (its number)
  tasks,        \* [Node -> <<>> or <<set of task numbers>>]  self.__tasks: None or a set
  start_lock,   \* [Node -> BOOLEAN]   self.__start_lock is held
  stop_lock,    \* [Node -> BOOLEAN]   self.__stop_lock is held
  fut,          \* the Futures made so far: "pending" or the exception set on it
  task,         \* the background tasks made so far (add_task)
  frames,       \* the calls of __start / __stop in progress
  hooks,        \* what the user's hooks of each service have seen (the tests' counters)
  start_order,  \* the services by the time their start() last ran (start_time)
  stop_order,   \* the services by the time their stop() last ran (stop_time)
  spc,          \* [Scope -> ...] where each caller is
  target,       \* [Scope -> Node] the service the caller entered
  wfut,         \* [Scope -> 0..] the Future the caller awaits in wait()
  result,       \* [Scope -> ...] what the caller's last enter / exit raised
  enters,       \* [Scope -> Nat] how many times the caller has entered
  bl            \* the same services as BlockingServiceMixin, driven by the same calls

svars == << running, dependents, exit_point, tasks, start_lock, stop_lock,
            fut, task, frames, hooks, start_order, stop_order >>
cvars == << spc, target, wfut, result, enters >>
vars == << cfg, svars, cvars, bl >>

\* The services' part of the state as one value: the code below is written as
\* functions from such a value to the next one.
World ==
  [running |-> running, dependents |-> dependents, exit_point |-> exit_point,
   tasks |-> tasks, start_lock |-> start_lock, stop_lock |-> stop_lock,
   fut |-> fut, task |-> task, frames |-> frames, hooks |-> hooks,
   start_order |-> start_order, stop_order |-> stop_order]

Becomes(w) ==
  /\ running' = w.running
  /\ dependents' = w.dependents
  /\ exit_point' = w.exit_point
  /\ tasks' = w.tasks
  /\ start_lock' = w.start_lock
  /\ stop_lock' = w.stop_lock
  /\ fut' = w.fut
  /\ task' = w.task
  /\ frames' = w.frames
  /\ hooks' = w.hooks
  /\ start_order' = w.start_order
  /\ stop_order' = w.stop_order

dependencies(n) == cfg.deps[n]

\* StatsService: self.start_time = time.perf_counter(); what the tests compare
\* is the order of these times, kept here as the services sorted by them.
RECURSIVE Without(_, _)
Without(seq, n) ==
  IF seq = << >> THEN << >>
  ELSE IF Head(seq) = n THEN Without(Tail(seq), n)
  ELSE << Head(seq) >> \o Without(Tail(seq), n)

Stamp(seq, n) == Append(Without(seq, n), n)

\* ------------------------------------------------------------------ frames

\* A frame is named by the path of calls that made it: the caller's scope, then
\* the dependencies down to it, each with the kind of call ("start" / "stop").
RootFrame(s, kind) == << <<s, kind>> >>
ChildFrame(f, d, kind) == Append(f, <<d, kind>>)

\* kind: "start" (__start up to its except), "rollback" (__start in its except
\* clause), "stop" (__stop).  pc: where the frame is suspended:
\*   "new"    made by create_task (or called), not yet run,
\*   "lock"   async with self.__start_lock / __stop_lock, the lock being held,
\*   "gather" await gather(*tasks) of group gi,
\*   "cwait"  await wait(tasks) after gather raised,
\*   "hook"   inside the user's start() / stop(),
\*   "tasks"  await wait(background_tasks), the tasks awaited being aw (kept
\*            until the frame returns),
\*   "done"   returned, or raised exc.
\* timer: the timeout of wait_for in __stop: "armed", "fired" (wait_for has
\* cancelled __stop_two_steps and waits for it), "off" (wait_for was cancelled).
NewFrame(n, kind) ==
  [node |-> n, kind |-> kind, pc |-> "new", gi |-> 0, exc |-> "none",
   cancel |-> FALSE, aw |-> {}, timer |-> "armed"]

Children(w, f) ==
  { g \in DOMAIN w.frames : Len(g) = Len(f) + 1 /\ SubSeq(g, 1, Len(f)) = f }

PutFrame(w, f, rec) ==
  [w EXCEPT !.frames = [g \in DOMAIN w.frames \cup {f} |->
                          IF g = f THEN rec ELSE w.frames[g]]]

DropFrames(w, F) ==
  [w EXCEPT !.frames = [g \in DOMAIN w.frames \ F |-> w.frames[g]]]

\* The frame returns (exc = "none") or raises exc.
Return(w, f, exc) ==
  [w EXCEPT !.frames[f].pc = "done", !.frames[f].exc = exc,
            !.frames[f].cancel = FALSE, !.frames[f].aw = {}]

\* ------------------------------------------------------- background tasks

TaskSet(w, n) == IF w.tasks[n] = << >> THEN {} ELSE w.tasks[n][1]

\* add_task: create_task(coroutine), add_done_callback, self.__tasks.add(task).
add_task(w, n, kind) ==
  LET id == Len(w.task) + 1 IN
  [w EXCEPT !.task = Append(@, [owner |-> n, kind |-> kind, st |-> "run", cancels |-> 0,
                                sets |-> None]),
            !.tasks[n] = << TaskSet(w, n) \cup {id} >>]

\* A __task_callback that sets the exception whether the exit point is done
\* or not.
task_callback_without_done_check(w, id, cancelled) ==
  LET n == w.task[id].owner
      w1 == [w EXCEPT !.task[id].st = "done",
                      !.tasks[n] = IF @ = << >> THEN @ ELSE << @[1] \ {id} >>]
      ep == w.exit_point[n]
  IN IF cancelled \/ ep = None \/ w.task[id].kind # "fails"
       THEN w1
       ELSE [w1 EXCEPT !.fut[ep] = "task_err", !.task[id].sets = ep]

\* __task_callback of a task that has finished: discard it, and unless it was
\* cancelled set its exception, if it has one, on the exit point, if that is
\* not done yet; sets records the Future it called set_exception on.
\* (With no exit point __ensure_exit_point raises inside the callback; the
\* event loop logs that and goes on.)
task_callback(w, id, cancelled) ==
  LET n == w.task[id].owner
      w1 == [w EXCEPT !.task[id].st = "done",
                      !.tasks[n] = IF @ = << >> THEN @ ELSE << @[1] \ {id} >>]
      ep == w.exit_point[n]
  IN IF cancelled \/ ep = None \/ w.task[id].kind # "fails" \/ w.fut[ep] # "pending"
       THEN w1
       ELSE [w1 EXCEPT !.fut[ep] = "task_err", !.task[id].sets = ep]

\* __stop_dependencies, lines 53-55: cancel every background task not done.
CancelTasks(w, n) ==
  [w EXCEPT !.task = [id \in DOMAIN @ |->
      IF id \in TaskSet(w, n) /\ @[id].st # "done"
        THEN [@[id] EXCEPT !.st = "cancelling", !.cancels = @ + 1]
        ELSE @[id]]]

\* --------------------------------------------------------- groups of tasks

\* create_task(dependency.__start()) / create_task(dependency.__stop()) for
\* every dependency of the group.
CreateTasks(w, f, grp, kind) ==
  LET new == { ChildFrame(f, d, kind) : d \in grp } IN
  [w EXCEPT !.frames = [g \in DOMAIN w.frames \cup new |->
      IF g \in new THEN NewFrame(g[Len(g)][1], kind) ELSE w.frames[g]]]

\* Task.cancel(): nothing for a task that is done; otherwise CancelledError is
\* thrown into the coroutine when it next runs.  The cancellation of a task
\* that awaits gather() is passed on to the tasks gathered.
RECURSIVE CancelFrame(_, _)
RECURSIVE CancelFrames(_, _)
CancelFrame(w, f) ==
  IF w.frames[f].pc = "done" THEN w
  ELSE LET w1 == [w EXCEPT !.frames[f].cancel = TRUE] IN
       IF w.frames[f].pc = "gather" THEN CancelFrames(w1, Children(w1, f)) ELSE w1

CancelFrames(w, F) ==
  IF F = {} THEN w
  ELSE LET f == CHOOSE g \in F : TRUE IN CancelFrames(CancelFrame(w, f), F \ {f})

\* ------------------------------------------------------------------ __stop

\* async with self.__start_lock: the lock is released on every way out.
ExitStart(w, f, exc) ==
  Return([w EXCEPT !.start_lock[w.frames[f].node] = FALSE], f, exc)

\* async with self.__stop_lock: the lock is released on every way out.
\* wait_for, its timeout having fired, turns the CancelledError that comes
\* out of __stop_two_steps into TimeoutError; any other exception goes on.
ExitStop(w, f, exc) ==
  Return([w EXCEPT !.stop_lock[w.frames[f].node] = FALSE], f,
         IF w.frames[f].timer = "fired" /\ exc = "cancel" THEN "timeout" ELSE exc)

\* What follows a __stop_dependencies that returned:
\*   in __start's except clause (line 81): raise, the exception being re-raised;
\*   in __stop_two_steps (line 99), stop() having returned: self.__exit_point = None;
\*   in __stop_two_steps, stop() having raised: that exception goes on.
AfterStopDependencies(w, f) ==
  LET fr == w.frames[f] IN
  IF fr.kind = "rollback" THEN ExitStart(w, f, fr.exc)
  ELSE IF fr.exc = "none"
    THEN ExitStop([w EXCEPT !.exit_point[fr.node] = None], f, "none")
    ELSE ExitStop(w, f, fr.exc)

\* A __stop_dependencies, or the code after it, that raised exc.
Raise(w, f, exc) ==
  IF w.frames[f].kind = "stop" THEN ExitStop(w, f, exc) ELSE ExitStart(w, f, exc)

\* __stop_dependencies, lines 58-65: the loop over reversed(self.dependencies),
\* at group gi (0: the loop has ended).
StopGroup_forward(w, f, gi) ==
  LET ds == dependencies(w.frames[f].node) IN
  IF gi = 0 THEN AfterStopDependencies(w, f)
  ELSE CreateTasks([w EXCEPT !.frames[f].pc = "gather", !.frames[f].gi = gi],
                   f, ds[Len(ds) + 1 - gi], "stop")

StopGroup(w, f, gi) ==
  IF gi = 0 THEN AfterStopDependencies(w, f)
  ELSE CreateTasks([w EXCEPT !.frames[f].pc = "gather", !.frames[f].gi = gi],
                   f, dependencies(w.frames[f].node)[gi], "stop")

\* A __stop_dependencies that cancels the background tasks and goes on to the
\* dependencies without waiting for the tasks.
stop_dependencies_without_wait(w, f) ==
  LET n == w.frames[f].node IN
  IF w.tasks[n] = << >> THEN Raise(w, f, "internal")
  ELSE StopGroup([CancelTasks(w, n) EXCEPT !.frames[f].aw = TaskSet(w, n)],
                 f, Len(dependencies(n)))

\* __stop_dependencies, lines 52-57: cancel the background tasks and wait for
\* them (wait() copies the set it is given).
stop_dependencies(w, f) ==
  LET n == w.frames[f].node IN
  IF w.tasks[n] = << >> THEN Raise(w, f, "internal")
  ELSE IF TaskSet(w, n) # {}
    THEN [CancelTasks(w, n) EXCEPT !.frames[f].pc = "tasks",
                                   !.frames[f].aw = TaskSet(w, n)]
    ELSE StopGroup(w, f, Len(dependencies(n)))

\* The user's stop(): Simple.stop / StatsService.stop ("ok"), one that raises,
\* or one that suspends ("slow": as far as its suspension).
UserStop(w, f) ==
  LET n == w.frames[f].node
      w1 == [w EXCEPT !.hooks[n].stop_called = @ + 1,
                      !.stop_order = Stamp(@, n)]
  IN CASE cfg.stop[n] = "ok" -> [w1 EXCEPT !.hooks[n].stopped = @ + 1]
       [] cfg.stop[n] = "fail" -> [w1 EXCEPT !.frames[f].exc = "stop_err"]
       [] cfg.stop[n] = "slow" -> [w1 EXCEPT !.frames[f].pc = "hook"]

\* A __stop_two_steps without the finally: a stop() that raises ends it.
stop_two_steps_without_finally(w, f) ==
  LET w1 == UserStop([w EXCEPT !.running[w.frames[f].node] = FALSE], f) IN
  IF w1.frames[f].pc = "hook" THEN w1
  ELSE IF w1.frames[f].exc # "none" THEN ExitStop(w1, f, w1.frames[f].exc)
  ELSE stop_dependencies(w1, f)

\* __stop_two_steps: running = False, stop(), and finally __stop_dependencies.
stop_two_steps(w, f) ==
  LET w1 == UserStop([w EXCEPT !.running[w.frames[f].node] = FALSE], f) IN
  IF w1.frames[f].pc = "hook" THEN w1 ELSE stop_dependencies(w1, f)

\* A __stop that shuts down whenever the count reaches zero, running or not.
stop_without_running_check(w, f) ==
  LET n == w.frames[f].node
      w1 == [w EXCEPT !.stop_lock[n] = TRUE, !.dependents[n] = @ - 1]
  IN IF w1.dependents[n] = 0
       THEN stop_two_steps(w1, f)
       ELSE ExitStop(w1, f, "none")

\* __stop, once it holds the stop lock (lines 89-91).
stop(w, f) ==
  LET n == w.frames[f].node
      w1 == [w EXCEPT !.stop_lock[n] = TRUE, !.dependents[n] = @ - 1]
  IN IF w1.dependents[n] = 0 /\ w1.running[n]
       THEN stop_two_steps(w1, f)
       ELSE ExitStop(w1, f, "none")

\* ----------------------------------------------------------------- __start

\* A failed start that only re-raises, the dependencies left as they are.
Rollback_without_stop(w, f, exc) ==
  ExitStart([w EXCEPT !.frames[f].exc = exc], f, exc)

\* __start's except clause (lines 79-81): __stop_dependencies, then raise.
Rollback(w, f, exc) ==
  stop_dependencies([w EXCEPT !.frames[f].kind = "rollback", !.frames[f].exc = exc], f)

\* __start's else clause (line 83): the service is running.
Started(w, f) ==
  LET n == w.frames[f].node IN
  ExitStart([w EXCEPT !.running[n] = TRUE], f, "none")

\* The user's start() has returned.
StartReturned(w, f) ==
  LET n == w.frames[f].node IN
  Started([w EXCEPT !.hooks[n].started = @ + 1, !.start_order = Stamp(@, n)], f)

\* await self.start() (line 78): the user's hook, as far as its first suspension.
UserStart(w, f) ==
  LET n == w.frames[f].node
      k == cfg.hook[n]
      w1 == [w EXCEPT !.hooks[n].start_called = @ + 1]
  IN CASE k = "ok" -> StartReturned(w1, f)
       [] k = "fail" -> Rollback(w1, f, "start_err")
       [] k \in {"slow_ok", "slow_fail"} -> [w1 EXCEPT !.frames[f].pc = "hook"]
       [] k = "task_forever" -> StartReturned(add_task(w1, n, "forever"), f)
       [] k = "task_fails" -> StartReturned(add_task(w1, n, "fails"), f)
       [] k = "task_returns" -> StartReturned(add_task(w1, n, "returns"), f)

\* A __start_dependencies that makes the tasks of every group from gi on at
\* once, and awaits them together (the groups are not awaited one by one).
StartGroup_no_await(w, f, gi) ==
  LET n == w.frames[f].node
      ds == dependencies(n)
      all == UNION { ds[j] : j \in gi..Len(ds) }
  IN IF gi > Len(ds) THEN UserStart(w, f)
     ELSE IF w.exit_point[n] = None THEN Rollback(w, f, "internal")
     ELSE CreateTasks(
            [w EXCEPT !.exit_point = [d \in Node |-> IF d \in all THEN @[n] ELSE @[d]],
                      !.frames[f].pc = "gather", !.frames[f].gi = Len(ds)],
            f, all, "start")

\* __start_dependencies, lines 40-49: the loop over self.dependencies at group
\* gi: the exit point is handed to every dependency of the group, whose
\* __start becomes a task; after the last group comes the user's start().
StartGroup(w, f, gi) ==
  LET n == w.frames[f].node
      ds == dependencies(n)
  IN IF gi > Len(ds) THEN UserStart(w, f)
     ELSE IF w.exit_point[n] = None THEN Rollback(w, f, "internal")
     ELSE CreateTasks(
            [w EXCEPT !.exit_point = [d \in Node |-> IF d \in ds[gi] THEN @[n] ELSE @[d]],
                      !.frames[f].pc = "gather", !.frames[f].gi = gi],
            f, ds[gi], "start")

\* __start_dependencies, line 39, and on.
start_dependencies(w, f) ==
  StartGroup([w EXCEPT !.tasks[w.frames[f].node] = << {} >>], f, 1)

\* A __start that does not look at self.__running (lines 72-73 left out).
start_without_running_check(w, f) ==
  LET n == w.frames[f].node
      w1 == [w EXCEPT !.start_lock[n] = TRUE, !.dependents[n] = @ + 1]
  IN IF w1.exit_point[n] = None
       THEN start_dependencies(
              [w1 EXCEPT !.fut = Append(@, "pending"),
                         !.exit_point[n] = Len(w1.fut) + 1], f)
       ELSE start_dependencies(w1, f)

\* __start, once it holds the start lock (lines 71-78).
\* A __start that does not take the start lock.
start_without_lock(w, f) ==
  LET n == w.frames[f].node
      w1 == [w EXCEPT !.dependents[n] = @ + 1]
  IN IF w1.running[n] THEN ExitStart(w1, f, "none")
     ELSE IF w1.exit_point[n] = None
       THEN start_dependencies(
              [w1 EXCEPT !.fut = Append(@, "pending"),
                         !.exit_point[n] = Len(w1.fut) + 1], f)
       ELSE start_dependencies(w1, f)

start(w, f) ==
  LET n == w.frames[f].node
      w1 == [w EXCEPT !.start_lock[n] = TRUE, !.dependents[n] = @ + 1]
  IN IF w1.running[n] THEN ExitStart(w1, f, "none")
     ELSE IF w1.exit_point[n] = None
       THEN start_dependencies(
              [w1 EXCEPT !.fut = Append(@, "pending"),
                         !.exit_point[n] = Len(w1.fut) + 1], f)
       ELSE start_dependencies(w1, f)

\* ------------------------------------------------------------ what runs next

Frames == DOMAIN frames

AllDone(f) == \A c \in Children(World, f) : frames[c].pc = "done"
Failed(f) == { c \in Children(World, f) : frames[c].pc = "done" /\ frames[c].exc # "none" }

\* A root frame runs in its caller's task: when __start / __stop returns or
\* raises, __aenter__ / __aexit__ does, with no suspension in between.  sp and
\* rs are spc and result as the step has left them so far.
RootDone(w, s, kind) ==
  /\ RootFrame(s, kind) \in DOMAIN w.frames
  /\ w.frames[RootFrame(s, kind)].pc = "done"

Resume(w, sp, rs) ==
  LET entered(s) == sp[s] = "entering" /\ RootDone(w, s, "start")
      exited(s) == sp[s] = "exiting" /\ RootDone(w, s, "stop")
      exc(s, kind) == w.frames[RootFrame(s, kind)].exc
  IN /\ spc' = [s \in Scope |->
            CASE entered(s) -> IF exc(s, "start") = "none" THEN "in" ELSE "out"
              [] exited(s) -> "out"
              [] OTHER -> sp[s]]
     /\ result' = [s \in Scope |->
            CASE entered(s) -> exc(s, "start")
              [] exited(s) -> IF exc(s, "stop") # "none" THEN exc(s, "stop") ELSE rs[s]
              [] OTHER -> rs[s]]
     /\ Becomes(DropFrames(w, { RootFrame(s, "start") : s \in { t \in Scope : entered(t) } }
                          \cup { RootFrame(s, "stop") : s \in { t \in Scope : exited(t) } }))

Step(w) == Resume(w, spc, result) /\ UNCHANGED << cfg, target, wfut, enters, bl >>

\* __start gets the start lock (at once, or after waiting for it) and runs as
\* far as its first suspension.
Start(f) ==
  /\ frames[f].kind = "start" /\ frames[f].pc \in {"new", "lock"} /\ ~frames[f].cancel
  /\ ~start_lock[frames[f].node]
  /\ Step(start(World, f))

\* __start finds the start lock held, and waits.
StartBlocked(f) ==
  /\ frames[f].kind = "start" /\ frames[f].pc = "new" /\ ~frames[f].cancel
  /\ start_lock[frames[f].node]
  /\ Step([World EXCEPT !.frames[f].pc = "lock"])

\* __stop gets the stop lock and runs as far as its first suspension.
Stop(f) ==
  /\ frames[f].kind = "stop" /\ frames[f].pc \in {"new", "lock"} /\ ~frames[f].cancel
  /\ ~stop_lock[frames[f].node]
  /\ Step(stop(World, f))

\* __stop finds the stop lock held, and waits.
StopBlocked(f) ==
  /\ frames[f].kind = "stop" /\ frames[f].pc = "new" /\ ~frames[f].cancel
  /\ stop_lock[frames[f].node]
  /\ Step([World EXCEPT !.frames[f].pc = "lock"])

\* __wait_with_cancellation_on_fail: gather returned, every task of the group
\* having returned; the finally clause has nothing left to cancel or wait for.
\* The loop over the groups goes on.
GatherOk(f) ==
  /\ frames[f].pc = "gather" /\ ~frames[f].cancel
  /\ AllDone(f) /\ Failed(f) = {}
  /\ LET w == DropFrames(World, Children(World, f)) IN
     Step(IF frames[f].kind = "start"
            THEN StartGroup(w, f, frames[f].gi + 1)
            ELSE StopGroup(w, f, frames[f].gi - 1))

\* __wait_with_cancellation_on_fail: gather raised the exception of the first
\* task that failed; the finally clause cancels every task and waits for all.
\* (Every task of the group has run its first step by then: the event loop
\* runs what is ready in the order it became ready.)
GatherFail(f) ==
  /\ frames[f].pc = "gather" /\ ~frames[f].cancel
  /\ \A c \in Children(World, f) : frames[c].pc # "new"
  /\ \E c \in Failed(f) :
       Step(CancelFrames([World EXCEPT !.frames[f].pc = "cwait",
                                       !.frames[f].exc = frames[c].exc],
                         Children(World, f)))

\* __wait_with_cancellation_on_fail: await wait(tasks) of the finally clause
\* returns, and the exception goes on: to __start's except clause, or out of
\* __stop_dependencies.
CwaitDone(f) ==
  /\ frames[f].pc = "cwait" /\ ~frames[f].cancel
  /\ AllDone(f)
  /\ LET w == DropFrames(World, Children(World, f)) IN
     Step(IF frames[f].kind = "start"
            THEN Rollback(w, f, frames[f].exc)
            ELSE Raise(w, f, frames[f].exc))

\* A user's start() that had suspended goes on: it returns or raises.
StartHookDone(f) ==
  /\ frames[f].kind = "start" /\ frames[f].pc = "hook" /\ ~frames[f].cancel
  /\ Step(IF cfg.hook[frames[f].node] = "slow_ok"
            THEN StartReturned(World, f)
            ELSE Rollback(World, f, "start_err"))

\* __stop_dependencies: await wait(background_tasks) returns.
TasksDone(f) ==
  /\ frames[f].pc = "tasks" /\ ~frames[f].cancel
  /\ \A id \in frames[f].aw : task[id].st = "done"
  /\ Step(StopGroup(World, f, Len(dependencies(frames[f].node))))

\* CancelledError is thrown into a cancelled task where it is suspended.
Throw(w, f) ==
  LET fr == w.frames[f]
      w1 == [w EXCEPT !.frames[f].cancel = FALSE]
  IN CASE fr.pc \in {"new", "lock"} -> Return(w1, f, "cancel")
       [] fr.pc = "hook" ->
            IF fr.kind = "start" THEN Rollback(w1, f, "cancel")
            ELSE stop_dependencies([w1 EXCEPT !.frames[f].exc = "cancel"], f)
       [] fr.pc = "gather" ->
            CancelFrames([w1 EXCEPT !.frames[f].pc = "cwait", !.frames[f].exc = "cancel"],
                         Children(w1, f))
       [] fr.pc = "cwait" ->
            IF fr.kind = "start" THEN Rollback(w1, f, "cancel") ELSE Raise(w1, f, "cancel")
       [] fr.pc = "tasks" -> Raise(w1, f, "cancel")

Cancelled(f) ==
  /\ frames[f].cancel /\ frames[f].pc # "done"
  /\ Step(Throw([World EXCEPT !.frames[f].timer = "off"], f))

\* A user's stop() that had suspended returns; the finally clause follows.
StopHookDone(f) ==
  /\ frames[f].kind = "stop" /\ frames[f].pc = "hook" /\ ~frames[f].cancel
  /\ Step(stop_dependencies(
            [World EXCEPT !.hooks[frames[f].node].stopped = @ + 1], f))

\* wait_for (line 91): graceful_shutdown_timeout elapses while
\* __stop_two_steps is in the user's stop(), waits for the background tasks
\* or waits for the stop of a group; wait_for cancels it, CancelledError is
\* thrown where it is suspended.
Timeout(f) ==
  /\ frames[f].kind = "stop" /\ frames[f].pc \in {"hook", "tasks", "gather"}
  /\ frames[f].node \in cfg.timeout
  /\ frames[f].timer = "armed" /\ ~frames[f].cancel
  /\ Step(Throw([World EXCEPT !.frames[f].timer = "fired"], f))

\* A background task raises (WithTaskException.task), and its callback runs.
TaskRaises(id) ==
  /\ task[id].st = "run" /\ task[id].kind = "fails"
  /\ Step(task_callback(World, id, FALSE))

\* A background task returns, and its callback runs.
TaskReturns(id) ==
  /\ task[id].st = "run" /\ task[id].kind = "returns"
  /\ Step(task_callback(World, id, FALSE))

\* A cancelled background task ends (WithTask.task), and its callback runs.
TaskCancelled(id) ==
  /\ task[id].st = "cancelling"
  /\ Step(task_callback(World, id, TRUE))

\* ------------------------------------------------------------- the callers

\* The services a caller enters: s1 the root, s2 any service.
Targets(s) == IF s = "s1" THEN {"A"} ELSE Node

\* __aenter__: await self.__start(), which runs as far as its first suspension.
aenter(s, n) ==
  LET f == RootFrame(s, "start")
      w == PutFrame(World, f, NewFrame(n, "start"))
  IN /\ spc[s] = "out" /\ enters["s1"] + enters["s2"] < MaxEnters
     /\ wfut[s] = None
     /\ target' = [target EXCEPT ![s] = n]
     /\ enters' = [enters EXCEPT ![s] = @ + 1]
     /\ Resume(IF start_lock[n] THEN [w EXCEPT !.frames[f].pc = "lock"] ELSE start(w, f),
               [spc EXCEPT ![s] = "entering"], result)
     /\ UNCHANGED << cfg, wfut >>

\* A caller enters an asyncio service.
Enter(s, n) == aenter(s, n) /\ UNCHANGED bl

\* __aexit__: await self.__stop(), the body having raised exc ("none": not);
\* wf is the Future that a task the body made still awaits in wait(), if any.
aexit(s, exc, wf) ==
  LET f == RootFrame(s, "stop")
      n == target[s]
      w == PutFrame(World, f, NewFrame(n, "stop"))
  IN /\ wfut' = [wfut EXCEPT ![s] = wf]
     /\ Resume(IF stop_lock[n] THEN [w EXCEPT !.frames[f].pc = "lock"] ELSE stop(w, f),
               [spc EXCEPT ![s] = "exiting"], [result EXCEPT ![s] = exc])
     /\ UNCHANGED << cfg, target, enters >>

LeaveKeeping(s, exc, wf) == aexit(s, exc, wf) /\ UNCHANGED bl

Leave(s, exc) == LeaveKeeping(s, exc, None)

\* The body of the async with ends.
Exit(s) ==
  /\ spc[s] = "in"
  /\ Leave(s, "none")

\* wait(): await self.__ensure_exit_point(), in the body of the async with.
Wait(s) ==
  /\ spc[s] = "in" /\ cfg.body \in {"wait", "task"}
  /\ IF exit_point[target[s]] = None
       THEN Leave(s, "internal")
       ELSE /\ spc' = [spc EXCEPT ![s] = "waiting"]
            /\ wfut' = [wfut EXCEPT ![s] = exit_point[target[s]]]
            /\ UNCHANGED << cfg, svars, target, result, enters, bl >>

\* The Future awaited in wait() has an exception: wait() raises it.
WaitRaises(s) ==
  /\ spc[s] = "waiting" /\ fut[wfut[s]] # "pending"
  /\ Leave(s, fut[wfut[s]])

\* The body had made a task of wait() (create_task(service.wait())) and
\* ends; the task goes on waiting.
ExitWaiting(s) ==
  /\ spc[s] = "waiting" /\ cfg.body = "task"
  /\ LeaveKeeping(s, "none", wfut[s])

\* The Future awaited by such a task has an exception: its wait() raises.
WaiterRaises(s) ==
  /\ spc[s] \in {"exiting", "out"} /\ wfut[s] # None
  /\ fut[wfut[s]] # "pending"
  /\ wfut' = [wfut EXCEPT ![s] = None]
  /\ UNCHANGED << cfg, svars, spc, target, result, enters, bl >>

\* --------------------------------------------------- BlockingServiceMixin

NoHooks == [start_called |-> 0, started |-> 0, stop_called |-> 0, stopped |-> 0]

\* The blocking services: their attributes, the counters of their hooks, the
\* order of the hooks, what the last __enter__ / __exit__ of each caller
\* raised, and exc: the exception that is propagating ("none": none).
BlockingInit ==
  [running |-> [n \in Node |-> FALSE], dependents |-> [n \in Node |-> 0],
   hooks |-> [n \in Node |-> NoHooks], start_order |-> << >>, stop_order |-> << >>,
   result |-> [s \in Scope |-> "none"], exc |-> "none"]

\* blocking.py iterates a group in the order of its list; the groups taken
\* here have one member each.
Flat(n) == [i \in 1..Len(dependencies(n)) |-> CHOOSE d \in dependencies(n)[i] : TRUE]

Reverse(seq) == [i \in 1..Len(seq) |-> seq[Len(seq) + 1 - i]]

RECURSIVE b_start(_, _)
RECURSIVE b_start_all(_, _)
RECURSIVE b_stop(_, _)
RECURSIVE b_stop_all(_, _)

\* BlockingServiceMixin.__start_dependencies: the first exception ends the loops.
b_start_all(b, seq) ==
  IF seq = << >> THEN b
  ELSE LET b1 == b_start(b, Head(seq)) IN
       IF b1.exc # "none" THEN b1 ELSE b_start_all(b1, Tail(seq))

\* BlockingServiceMixin.__stop_dependencies, seq being the reversed groups.
b_stop_all(b, seq) ==
  IF seq = << >> THEN b
  ELSE LET b1 == b_stop(b, Head(seq)) IN
       IF b1.exc # "none" THEN b1 ELSE b_stop_all(b1, Tail(seq))

\* The except clause of BlockingServiceMixin.__start: __stop_dependencies,
\* then raise (an exception of __stop_dependencies takes its place).
b_rollback(b, n, exc) ==
  LET b1 == b_stop_all([b EXCEPT !.exc = "none"], Reverse(Flat(n))) IN
  IF b1.exc # "none" THEN b1 ELSE [b1 EXCEPT !.exc = exc]

\* BlockingServiceMixin.__start.
b_start(b, n) ==
  LET b1 == [b EXCEPT !.dependents[n] = @ + 1] IN
  IF b1.running[n] THEN b1
  ELSE LET b2 == b_start_all(b1, Flat(n)) IN
       IF b2.exc # "none" THEN b_rollback(b2, n, b2.exc)
       ELSE LET b3 == [b2 EXCEPT !.hooks[n].start_called = @ + 1] IN
            IF cfg.hook[n] = "fail" THEN b_rollback(b3, n, "start_err")
            ELSE [b3 EXCEPT !.hooks[n].started = @ + 1,
                            !.start_order = Stamp(@, n),
                            !.running[n] = TRUE]

\* BlockingServiceMixin.__stop: stop(), and finally __stop_dependencies.
b_stop(b, n) ==
  LET b1 == [b EXCEPT !.dependents[n] = @ - 1] IN
  IF b1.dependents[n] > 0 \/ ~b1.running[n] THEN b1
  ELSE LET b2 == [b1 EXCEPT !.running[n] = FALSE,
                             !.hooks[n].stop_called = @ + 1,
                             !.stop_order = Stamp(@, n)]
           b3 == IF cfg.stop[n] = "fail" THEN b2
                 ELSE [b2 EXCEPT !.hooks[n].stopped = @ + 1]
           b4 == b_stop_all(b3, Reverse(Flat(n)))
       IN IF b4.exc # "none" \/ cfg.stop[n] # "fail" THEN b4
          ELSE [b4 EXCEPT !.exc = "stop_err"]

\* __enter__ / __exit__ of the caller s: what they raise is kept, and caught.
b_enter(b, s, n) ==
  LET b1 == b_start(b, n) IN [b1 EXCEPT !.result[s] = b1.exc, !.exc = "none"]

b_exit(b, s, n) ==
  LET b1 == b_stop(b, n) IN [b1 EXCEPT !.result[s] = b1.exc, !.exc = "none"]

\* ------------------------------------------------------ the specification

\* The state after construction: the class attributes, nobody inside.
Constructed ==
  /\ running = [n \in Node |-> FALSE]
  /\ dependents = [n \in Node |-> 0]
  /\ exit_point = [n \in Node |-> None]
  /\ tasks = [n \in Node |-> << >>]
  /\ start_lock = [n \in Node |-> FALSE]
  /\ stop_lock = [n \in Node |-> FALSE]
  /\ fut = << >>
  /\ task = << >>
  /\ frames = << >>
  /\ hooks = [n \in Node |-> NoHooks]
  /\ start_order = << >>
  /\ stop_order = << >>
  /\ spc = [s \in Scope |-> "out"]
  /\ target = [s \in Scope |-> "A"]
  /\ wfut = [s \in Scope |-> None]
  /\ result = [s \in Scope |-> "none"]
  /\ enters = [s \in Scope |-> 0]
  /\ bl = BlockingInit

Init == cfg \in Configs /\ Constructed

Next ==
  \/ \E f \in Frames : Start(f)
  \/ \E f \in Frames : StartBlocked(f)
  \/ \E f \in Frames : Stop(f)
  \/ \E f \in Frames : StopBlocked(f)
  \/ \E f \in Frames : GatherOk(f)
  \/ \E f \in Frames : GatherFail(f)
  \/ \E f \in Frames : CwaitDone(f)
  \/ \E f \in Frames : StartHookDone(f)
  \/ \E f \in Frames : TasksDone(f)
  \/ \E f \in Frames : Cancelled(f)
  \/ \E f \in Frames : StopHookDone(f)
  \/ \E f \in Frames : Timeout(f)
  \/ \E id \in DOMAIN task : TaskRaises(id)
  \/ \E id \in DOMAIN task : TaskReturns(id)
  \/ \E id \in DOMAIN task : TaskCancelled(id)
  \/ \E s \in Scope : \E n \in Targets(s) : Enter(s, n)
  \/ \E s \in Scope : Exit(s)
  \/ \E s \in Scope : Wait(s)
  \/ \E s \in Scope : WaitRaises(s)
  \/ \E s \in Scope : ExitWaiting(s)
  \/ \E s \in Scope : WaiterRaises(s)

Spec == Init /\ [][Next]_vars

\* ------------------------------------- the two variants, called in sequence

\* Graphs of groups of one service, start() hooks that return or raise.
SeqConfigs ==
  { Config(g, [Plain EXCEPT ![n] = k], Plain) :
      g \in {Diamond, Chain}, n \in Node \ {"C"}, k \in {"ok", "fail"} }
  \cup { Config(Diamond, [Plain EXCEPT !["C"] = "fail"], Plain) }

InitSeq == cfg \in SeqConfigs /\ Constructed

\* No call is under way: every caller is inside its scope or outside.
Quiescent == Frames = {} /\ \A s \in Scope : spc[s] \in {"in", "out"}

\* A caller enters the asyncio service and its blocking twin.
SeqEnter(s, n) ==
  /\ Quiescent
  /\ aenter(s, n)
  /\ bl' = b_enter(bl, s, n)

\* A caller leaves the asyncio service and its blocking twin.
SeqExit(s) ==
  /\ Quiescent /\ spc[s] = "in"
  /\ aexit(s, "none", None)
  /\ bl' = b_exit(bl, s, target[s])

NextSeq ==
  \/ \E s \in Scope : \E n \in Targets(s) : SeqEnter(s, n)
  \/ \E s \in Scope : SeqExit(s)
  \/ \E f \in Frames : Start(f)
  \/ \E f \in Frames : Stop(f)
  \/ \E f \in Frames : GatherOk(f)
  \/ \E f \in Frames : GatherFail(f)
  \/ \E f \in Frames : CwaitDone(f)

SpecSeq == InitSeq /\ [][NextSeq]_vars

\* What the event loop does by itself: it runs every coroutine that is ready
\* and every task until it ends.  (The callers enter, leave and wait as they
\* choose, and a deadline need not elapse.)
Loop ==
  \/ \E f \in Frames : Start(f)
  \/ \E f \in Frames : Stop(f)
  \/ \E f \in Frames : GatherOk(f)
  \/ \E f \in Frames : GatherFail(f)
  \/ \E f \in Frames : CwaitDone(f)
  \/ \E f \in Frames : StartHookDone(f)
  \/ \E f \in Frames : StopHookDone(f)
  \/ \E f \in Frames : TasksDone(f)
  \/ \E f \in Frames : Cancelled(f)
  \/ \E id \in DOMAIN task : TaskRaises(id)
  \/ \E id \in DOMAIN task : TaskReturns(id)
  \/ \E id \in DOMAIN task : TaskCancelled(id)

\* The event loop runs what is ready, and a Future that is done wakes up
\* whoever awaits it.
FairSpec ==
  /\ Spec
  /\ WF_vars(Loop)
  /\ \A s \in Scope : WF_vars(WaitRaises(s)) /\ WF_vars(WaiterRaises(s))

\* -------------------------------------------------------------- the graph

DepsOf(n) == UNION { dependencies(n)[i] : i \in DOMAIN dependencies(n) }

\* The number of paths of the graph from m to n.
RECURSIVE NPaths(_, _)
RECURSIVE SumPaths(_, _)
NPaths(m, n) == IF m = n THEN 1 ELSE SumPaths(DepsOf(m), n)
SumPaths(S, n) ==
  IF S = {} THEN 0
  ELSE LET d == CHOOSE x \in S : TRUE IN NPaths(d, n) + SumPaths(S \ {d}, n)

Reachable(m) == { n \in Node : NPaths(m, n) > 0 }

\* ------------------------------------------------------------- the callers

\* s is the only caller that has entered anything, and it has entered once.
Solo(s) == enters[s] = 1 /\ \A t \in Scope \ {s} : enters[t] = 0

\* s is in the body of its async with.
Active(s) == spc[s] \in {"in", "waiting"}

\* s has entered and left, and nothing was raised.
LeftCleanly(s) == enters[s] >= 1 /\ spc[s] = "out" /\ result[s] = "none"

\* ------------------------------------------------------------------ claims

\* C1: a service reachable from the root A along more than one path has its
\* start() called once by one entry of A and its stop() called once by the
\* exit, and while the caller is inside A's scope every service A reaches is
\* running.
C1_SharedStartedOnce ==
  \A s \in Scope :
    (Solo(s) /\ target[s] = "A") =>
      /\ Active(s) => \A n \in Reachable("A") : running[n]
      /\ \A c \in Node :
           NPaths("A", c) > 1 =>
             /\ Active(s) => hooks[c].start_called = 1 /\ hooks[c].stop_called = 0
             /\ LeftCleanly(s) =>
                  /\ hooks[c].start_called = 1 /\ hooks[c].stop_called = 1
                  /\ ~running[c]

C1_Witness ==
  \E s \in Scope :
    /\ Solo(s) /\ target[s] = "A" /\ LeftCleanly(s)
    /\ NPaths("A", "C") = 2
    /\ hooks["C"].start_called = 1 /\ hooks["C"].stop_called = 1

\* C3: the groups of a service start in the order declared, a group only
\* after every member of the groups before it is running; the service's own
\* start() is called only when every dependency is running; in the diamond
\* the start() hooks run in the order C, B1, B2, A.
Parent(g) == SubSeq(g, 1, Len(g) - 1)

IsPrefix(a, b) == Len(a) <= Len(b) /\ a = SubSeq(b, 1, Len(a))

StartTasks == { g \in Frames : Len(g) >= 2 /\ g[Len(g)][2] = "start" }

C3_GroupsInOrder ==
  \A g \in StartTasks :
    LET p == frames[Parent(g)]
        ds == dependencies(p.node)
    IN /\ p.kind = "start" /\ p.pc \in {"gather", "cwait"}
       /\ frames[g].node \in ds[p.gi]
       /\ \A i \in 1..(p.gi - 1) : \A e \in ds[i] :
            /\ running[e]
            /\ ChildFrame(Parent(g), e, "start") \notin Frames

C3_HookAfterDependencies ==
  \A n \in Node :
    hooks'[n].start_called > hooks[n].start_called =>
      \A d \in DepsOf(n) : running[d] /\ hooks[d].started > hooks[d].stop_called

C3_DiamondOrder ==
  \A s \in Scope :
    (Solo(s) /\ target[s] = "A" /\ cfg.deps = Diamond) =>
      /\ IsPrefix(start_order, <<"C", "B1", "B2", "A">>)
      /\ Active(s) => start_order = <<"C", "B1", "B2", "A">>

\* C3, whole: groups start in the declared order, start() is called after
\* every dependency is running, and the diamond starts in the order C, B1, B2, A.
C3_StartOrder ==
  /\ [](C3_GroupsInOrder /\ C3_DiamondOrder)
  /\ [][C3_HookAfterDependencies]_vars

C3_Witness ==
  \E s \in Scope :
    /\ Solo(s) /\ target[s] = "A" /\ cfg.deps = Diamond /\ Active(s)
    /\ start_order = <<"C", "B1", "B2", "A">>

\* C4: in a real shutdown the service's own stop() has completed before any
\* of its dependencies begins to stop; the groups are stopped in the reverse
\* of the declared order, a group only after the groups declared after it
\* are stopped (or are kept running by another holder); in the diamond the
\* stop() hooks run in the order A, B2, B1, C.
StopTasks == { g \in Frames : Len(g) >= 2 /\ g[Len(g)][2] = "stop" }

C4_GroupsReversed ==
  \A g \in StopTasks :
    LET p == frames[Parent(g)]
        ds == dependencies(p.node)
    IN p.kind = "stop" =>
         /\ p.pc \in {"gather", "cwait"}
         /\ frames[g].node \in ds[p.gi]
         /\ ~running[p.node] \/ hooks[p.node].started > hooks[p.node].stop_called
         /\ hooks[p.node].stop_called >= 1
         /\ \A j \in (p.gi + 1)..Len(ds) : \A e \in ds[j] :
              /\ ChildFrame(Parent(g), e, "stop") \notin Frames
              /\ running[e] => dependents[e] >= 1

C4_HookBeforeDependencies ==
  \A d \in Node :
    hooks'[d].stop_called > hooks[d].stop_called =>
      \A m \in Node :
        d \in DepsOf(m) =>
          ~running'[m] /\ hooks'[m].stop_called = hooks'[m].started

C4_DiamondOrder ==
  \A s \in Scope :
    (Solo(s) /\ target[s] = "A" /\ cfg.deps = Diamond /\ hooks["A"].started = 1) =>
      /\ IsPrefix(stop_order, <<"A", "B2", "B1", "C">>)
      /\ LeftCleanly(s) => stop_order = <<"A", "B2", "B1", "C">>

\* C4, whole: stop() of a service comes before the stop of its dependencies,
\* groups stop in reverse order, and the diamond stops in the order A, B2, B1, C.
C4_StopOrder ==
  /\ [](C4_GroupsReversed /\ C4_DiamondOrder)
  /\ [][C4_HookBeforeDependencies]_vars

C4_Witness ==
  \E s \in Scope :
    /\ Solo(s) /\ target[s] = "A" /\ cfg.deps = Diamond /\ LeftCleanly(s)
    /\ stop_order = <<"A", "B2", "B1", "C">>

\* The hook of n raises.
Broken(n) == cfg.hook[n] \in {"fail", "slow_fail"}

\* The start of n fails: its hook, or that of a service it reaches, raises.
FailsToStart(n) == \E x \in Reachable(n) : Broken(x)

\* The one entry s made failed: the target never completed a start.
FailedEntry(s) == Solo(s) /\ spc[s] = "out" /\ hooks[target[s]].started = 0

\* The index of the group of A that holds d.
GroupOf(d) == CHOOSE i \in 1..Len(dependencies("A")) : d \in dependencies("A")[i]

\* C5: when the start of the root A fails because of a dependency, the
\* failure is raised to the caller, A is not running, no service is left
\* running and every service that had started has had its stop() called; a
\* valid member of an earlier group than the broken one, or of the same
\* group, was started and stopped.  (No stop() raises in the rollback.)
C5_PartialStartRolledBack ==
  \A s \in Scope :
    (FailedEntry(s) /\ target[s] = "A" /\ \A n \in Node : cfg.stop[n] # "fail") =>
      /\ result[s] = "start_err"
      /\ ~running["A"] /\ hooks["A"].stop_called = 0
      /\ \A d \in Node : ~running[d] /\ hooks[d].stop_called = hooks[d].started
      /\ \A b \in DepsOf("A") : \A v \in DepsOf("A") \ {b} :
           (/\ Broken(b)
            /\ \/ GroupOf(v) < GroupOf(b)
               \/ GroupOf(v) = GroupOf(b) /\ cfg.hook[v] = "ok") =>
             hooks[v].started = 1 /\ hooks[v].stop_called = 1

C5_Witness ==
  \E s \in Scope :
    /\ FailedEntry(s) /\ target[s] = "A" /\ result[s] = "start_err"
    /\ Broken("B2") /\ hooks["B2"].start_called = 1
    /\ hooks["B1"].started = 1 /\ hooks["B1"].stop_called = 1 /\ ~running["B1"]

\* The call of kind k that the start of A entered by s makes on its
\* dependency e takes its first step here: it runs __start or __stop of e.
Runs(s, e, k) ==
  LET g == ChildFrame(RootFrame(s, "start"), e, k) IN
  /\ g \in DOMAIN frames' /\ frames'[g].pc \notin {"new", "lock"}
  /\ g \notin Frames \/ frames[g].pc \in {"new", "lock"}

\* C6: when a member of a group of A fails to start, the start attempt on A
\* calls neither start() nor stop() of a member of a group declared after
\* it, and does not change whether that member is running.
C6_LaterGroupsUntouched ==
  [][\A s \in Scope : \A b \in DepsOf("A") : \A e \in DepsOf("A") :
       (target'[s] = "A" /\ FailsToStart(b) /\ GroupOf(b) < GroupOf(e)) =>
         /\ ~Runs(s, e, "start")
         /\ Runs(s, e, "stop") => hooks'[e] = hooks[e] /\ running'[e] = running[e]]_vars

\* C6, with nobody but the caller of A about: the members of the groups
\* declared after the one that fails never have start() or stop() called
\* and are never running.
C6_InIsolation ==
  enters["s2"] = 0 =>
    \A b \in DepsOf("A") : \A e \in DepsOf("A") :
      (FailsToStart(b) /\ GroupOf(b) < GroupOf(e)) =>
        /\ hooks[e] = NoHooks
        /\ ~running[e]
        /\ \A g \in Frames : frames[g].node = e => g[Len(g)][2] = "stop"

\* C7: stop() is never called more often than start() has completed, and
\* never twice for one completed start; a service whose start() raises does
\* not have its stop() called, and the services that depend on it have
\* neither hook called.
Dependents(b) == { m \in Node \ {b} : b \in Reachable(m) }

\* C7, stated: stop() calls never exceed completed start() calls; a broken
\* service has no stop() call and its dependents have no hook called at all.
C7_StopOnlyAfterStart ==
  /\ \A n \in Node :
       /\ hooks[n].stop_called <= hooks[n].started
       /\ hooks[n].started <= hooks[n].stop_called + 1
       /\ running[n] => hooks[n].started = hooks[n].stop_called + 1
  /\ \A b \in Node :
       Broken(b) =>
         /\ hooks[b].stop_called = 0 /\ ~running[b]
         /\ \A m \in Dependents(b) : hooks[m] = NoHooks /\ ~running[m]

C7_Witness ==
  \E s \in Scope : \E b \in Node :
    /\ FailedEntry(s) /\ target[s] = "A" /\ result[s] = "start_err"
    /\ Broken(b) /\ hooks[b].start_called = 1 /\ hooks[b].stop_called = 0
    /\ hooks["A"] = NoHooks
    /\ \E v \in Node : hooks[v].started = 1 /\ hooks[v].stop_called = 1

\* C8: a shutdown cancels each background task still outstanding once; no
\* dependency of the service is asked to stop while one of those tasks is
\* unfinished, and a stop that returns normally leaves none unfinished.
Stopping == { f \in Frames : frames[f].kind \in {"stop", "rollback"} }

\* C8, stated: each outstanding task is cancelled once, and is finished
\* before a dependency is asked to stop and before the stop returns normally.
C8_TasksCancelledBeforeDependencies ==
  /\ \A id \in DOMAIN task : task[id].cancels <= 1
  /\ \A f \in Stopping :
       /\ \A id \in frames[f].aw : task[id].cancels = 1
       /\ frames[f].pc = "tasks" => Children(World, f) = {}
       /\ (Children(World, f) # {} \/ (frames[f].pc = "done" /\ frames[f].exc = "none")) =>
            \A id \in frames[f].aw : task[id].st = "done"
  /\ \A s \in Scope :
       (Solo(s) /\ LeftCleanly(s)) =>
         \A id \in DOMAIN task :
           /\ task[id].st = "done"
           /\ task[id].kind = "forever" => task[id].cancels = 1

C8_Witness ==
  \E f \in Stopping :
    /\ frames[f].kind = "stop" /\ frames[f].pc = "gather"
    /\ frames[f].aw # {} /\ Children(World, f) # {}
    /\ \A id \in frames[f].aw : task[id].st = "done" /\ task[id].cancels = 1

\* C9: when the exit point of a started service has the exception of a
\* failed background task, the Future that a caller blocked in wait() on
\* that service awaits has it too, so that the caller is resumed.
C9_WaitersResumed ==
  \A s \in Scope :
    (/\ spc[s] = "waiting"
     /\ exit_point[target[s]] # None
     /\ fut[exit_point[target[s]]] = "task_err") =>
      fut[wfut[s]] = "task_err"

\* The step runs __start in the frame g: g leaves the head of the call.
StartStep(g) ==
  /\ g[Len(g)][2] = "start"
  /\ frames[g].pc \in {"new", "lock"} /\ ~frames[g].cancel
  /\ g \notin DOMAIN frames' \/ frames'[g].pc \notin {"new", "lock"}

\* The step is the entry of a caller s, who finds the start lock free.
EnterStep(s) == enters'[s] = enters[s] + 1

\* What a __start of n that only counts leaves behind.
OnlyCounts(n) ==
  /\ dependents' = [dependents EXCEPT ![n] = @ + 1]
  /\ UNCHANGED << running, exit_point, tasks, task, fut, hooks,
                  start_order, stop_order, start_lock, stop_lock >>

\* C10: __start of a service that is running adds one to its __dependents
\* and returns: no hook is called, no task is made for a dependency, and the
\* running flags, the background tasks, the exit points and the counts of
\* the other services stay as they are.
C10_StartOfRunningOnlyCounts ==
  [][/\ \A g \in Frames :
          LET n == frames[g].node IN
          (running[n] /\ ~start_lock[n] /\ StartStep(g)) =>
            /\ OnlyCounts(n)
            /\ IF Len(g) = 1
                 THEN /\ frames' = [h \in Frames \ {g} |-> frames[h]]
                      /\ spc'[g[1][1]] = "in" /\ result'[g[1][1]] = "none"
                 ELSE frames' = [frames EXCEPT ![g].pc = "done"]
     /\ \A s \in Scope :
          LET n == target'[s] IN
          (running[n] /\ ~start_lock[n] /\ EnterStep(s)) =>
            /\ OnlyCounts(n)
            /\ frames' = frames
            /\ spc'[s] = "in" /\ result'[s] = "none"]_vars

C10_Witness ==
  \E n \in Node :
    /\ running[n] /\ dependents[n] = 2
    /\ hooks[n].start_called = 1 /\ hooks[n].stop_called = 0

\* The step in which the __stop of n raises TimeoutError: to the caller who
\* leaves n, or in the stop task g of a dependency.
StopTimesOut(n) ==
  \/ \E s \in Scope :
       /\ target[s] = n /\ spc[s] = "exiting"
       /\ spc'[s] = "out" /\ result'[s] = "timeout"
  \/ \E g \in Frames :
       /\ frames[g].node = n /\ frames[g].pc # "done"
       /\ g \in DOMAIN frames' /\ frames'[g].pc = "done" /\ frames'[g].exc = "timeout"

\* C11: when the __stop of a service raises TimeoutError, its stop lock is
\* free and the service is not running.
C11_TimedOutNotRunning ==
  [][\A n \in Node : StopTimesOut(n) => ~stop_lock'[n] /\ ~running'[n]]_vars

\* C11, for a service that no start has set running again while its shutdown
\* was under way: when its __stop raises TimeoutError, its stop lock is free
\* and it is not running.
C11_NotRestarted ==
  [][\A n \in Node :
       (StopTimesOut(n) /\ hooks'[n].started = hooks'[n].stop_called) =>
         ~stop_lock'[n] /\ ~running'[n]]_vars

\* C12: when the stop() of a service raises in its shutdown, the caller of
\* __stop gets that exception only after the teardown: the background tasks
\* of the service are cancelled and finished, and every dependency has had
\* its __stop, so that none is left running that nobody else holds.
C12_TeardownAfterStopFailure ==
  /\ \A s \in Scope :
       (/\ Solo(s) /\ spc[s] = "out" /\ hooks[target[s]].started = 1
        /\ cfg.stop[target[s]] = "fail") =>
         /\ result[s] = "stop_err"
         /\ \A d \in Reachable(target[s]) :
              ~running[d] /\ dependents[d] = 0 /\ hooks[d].stop_called = hooks[d].started
         /\ \A id \in DOMAIN task : task[id].st = "done"
  /\ \A g \in Frames :
       LET n == frames[g].node IN
       (/\ g[Len(g)][2] = "stop" /\ frames[g].pc = "done"
        /\ frames[g].exc = "stop_err" /\ cfg.stop[n] = "fail") =>
         /\ \A id \in DOMAIN task : task[id].owner = n => task[id].st = "done"
         /\ \A d \in DepsOf(n) : running[d] => dependents[d] >= 1

C12_Witness ==
  \E s \in Scope :
    /\ Solo(s) /\ spc[s] = "out" /\ result[s] = "stop_err"
    /\ cfg.stop[target[s]] = "fail" /\ cfg.hook[target[s]] = "task_forever"
    /\ hooks[target[s]].stop_called = 1
    /\ DepsOf(target[s]) # {}
    /\ \A d \in DepsOf(target[s]) : hooks[d].stop_called = 1 /\ ~running[d]
    /\ \E id \in DOMAIN task : task[id].cancels = 1 /\ task[id].st = "done"

\* The calls of __start of n that are past the start lock and not yet back.
Starting(n) ==
  { g \in Frames : /\ frames[g].node = n /\ g[Len(g)][2] = "start"
                   /\ frames[g].pc \in {"gather", "cwait", "hook", "tasks"} }

\* The one entry s made has succeeded (s may have left since).
EnteredOk(s) ==
  /\ enters[s] = 1 /\ spc[s] \in {"in", "waiting", "exiting", "out"}
  /\ result[s] # "start_err"

\* C13: at most one __start of a service is past the start lock at a time;
\* when two callers have entered the same service and none has left, its
\* start() was called once, it is running and its count is two; when their
\* entries shared that one start(), its stop() is not called while one of
\* them is inside and is called once when both have left.
C13_ConcurrentStartsShareOne ==
  /\ \A n \in Node : Cardinality(Starting(n)) <= 1
  /\ \A n \in Node :
       (\A s \in Scope : EnteredOk(s) /\ target[s] = n) =>
         /\ (\A s \in Scope : Active(s)) =>
              /\ hooks[n].start_called = 1 /\ hooks[n].started = 1
              /\ running[n] /\ dependents[n] = 2
         /\ (hooks[n].start_called = 1 /\ \E s \in Scope : Active(s)) =>
              hooks[n].stop_called = 0 /\ running[n]
         /\ (hooks[n].start_called = 1 /\ \A s \in Scope : LeftCleanly(s)) =>
              hooks[n].stop_called = 1 /\ ~running[n] /\ dependents[n] = 0

C13_Witness ==
  /\ RootFrame("s2", "start") \in Frames
  /\ frames[RootFrame("s2", "start")].pc = "lock"
  /\ target["s2"] = "A" /\ spc["s1"] = "in" /\ enters["s1"] = 1
  /\ running["A"] /\ hooks["A"].start_called = 1 /\ dependents["A"] = 1

\* s, or a task that s made, is blocked in wait().
Blocked(s) == wfut[s] # None

\* n has been started and its shutdown has completed, stop() having returned
\* as often as start(); no call of __start or __stop of n is under way.
ShutDown(n) ==
  /\ ~running[n] /\ hooks[n].started >= 1
  /\ hooks[n].stopped = hooks[n].started
  /\ \A g \in Frames : frames[g].node # n

\* C14: a caller blocked in wait() on a service whose shutdown has completed
\* is released in the end.
C14_WaitersReleased ==
  \A s \in Scope : (Blocked(s) /\ ShutDown(target[s])) ~> ~Blocked(s)

\* C15: the caller of a start that failed gets the exception of the start,
\* also when the rollback raises one of its own.
C15_OriginalFailureObserved ==
  \A s \in Scope : FailedEntry(s) => result[s] = "start_err"

\* C16: called in the same sequence, the asyncio services and the blocking
\* ones have had the same hooks called in the same order, have raised the
\* same to their callers, and have the same running flags and counts.
C16_SameContract ==
  Quiescent =>
    /\ running = bl.running
    /\ dependents = bl.dependents
    /\ hooks = bl.hooks
    /\ start_order = bl.start_order /\ stop_order = bl.stop_order
    /\ result = bl.result

\* C17: while the root is running for a caller inside its scope, every
\* running service of its dependency tree has the exit point of the root.
C17_TreeSharesExitPoint ==
  \A s \in Scope :
    (spc[s] \in {"in", "waiting"} /\ target[s] = "A" /\ running["A"]) =>
      \A m \in Reachable("A") : running[m] => exit_point[m] = exit_point["A"]

\* C18: a Future that has an exception keeps it, and the callback of one task
\* only has set it: of a task that raised, and was not cancelled before it
\* ended; the callbacks of the other tasks leave every Future as it was.
C18_ExitPointSetOnce ==
  [][ /\ \A k \in DOMAIN fut : fut[k] # "pending" => fut'[k] = fut[k]
      /\ \A k \in DOMAIN fut' :
            /\ Cardinality({ id \in DOMAIN task' : task'[id].sets = k }) <= 1
            /\ fut'[k] # "pending" <=> \E id \in DOMAIN task' : task'[id].sets = k
      /\ \A id \in DOMAIN task' :
            task'[id].sets # None =>
              /\ task'[id].kind = "fails" /\ task'[id].cancels = 0
              /\ id \in DOMAIN task /\ task[id].sets # None => task'[id].sets = task[id].sets
      /\ \A id \in DOMAIN task :
            (task[id].st = "done" \/ task[id].kind # "fails") => task'[id].sets = task[id].sets
    ]_vars

\* Two tasks of services that share an exit point have raised, and the
\* Future has the exception that the first callback set.
C18_Witness ==
  \E i, j \in DOMAIN task :
        /\ i # j /\ task[i].kind = "fails" /\ task[j].kind = "fails"
        /\ task[i].st = "done" /\ task[j].st = "done"
        /\ task[i].cancels = 0 /\ task[j].cancels = 0
        /\ task[i].sets # None /\ task[j].sets = None
        /\ exit_point[task[i].owner] = task[i].sets
        /\ exit_point[task[j].owner] = task[i].sets
        /\ fut[task[i].sets] = "task_err"

\* C19: no service has a negative count of dependents, and a running
\* service has a count of at least one (the callers leave only what they
\* have entered).
C19_DependentsCounted ==
  \A n \in Node : dependents[n] >= 0 /\ (running[n] => dependents[n] >= 1)

\* C20: when a member of a group of A fails to start, the rollback of the
\* start of A leaves the members of the groups declared after it as they
\* were: their count of dependents, their running flag, their hook counts.
C20_RollbackSparesLaterGroups ==
  [][\A s \in Scope : \A b \in DepsOf("A") : \A e \in DepsOf("A") :
       (/\ target'[s] = "A" /\ FailsToStart(b) /\ GroupOf(b) < GroupOf(e)
        /\ Runs(s, e, "stop")) =>
         /\ dependents'[e] = dependents[e]
         /\ running'[e] = running[e]
         /\ hooks'[e] = hooks[e]]_vars

\* A call of __start or __stop of n is under way.
InFlight(n) == \E f \in Frames : frames[f].node = n

\* C21: a service has an exit point exactly while it is running or a call of
\* its __start or __stop is under way.
C21_ExitPointWhileAlive ==
  \A n \in Node : exit_point[n] # None <=> (running[n] \/ InFlight(n))

\* C22: a service that is started again does not run with the Future that a
\* task of an earlier cycle of it has set an exception on (one caller, who
\* enters and leaves in sequence).
C22_FreshExitPoint ==
  [][\A n \in Node :
       (enters["s2"] = 0 /\ ~running[n] /\ running'[n]) =>
         ~\E id \in DOMAIN task :
            /\ task[id].owner = n /\ task[id].sets # None
            /\ task[id].sets = exit_point'[n]]_vars

\* Nobody is inside a scope and no call is under way.
AllOut == Frames = {} /\ \A s \in Scope : spc[s] = "out"

\* C23: when every caller that entered has left, no service is running and
\* no service has dependents.
C23_Quiescence ==
  AllOut => \A n \in Node : ~running[n] /\ dependents[n] = 0

\* A call of __stop of n is under way.
StopInFlight(n) == \E f \in Frames : frames[f].node = n /\ frames[f].kind = "stop"

\* C24: a running service, no __stop of which is under way, has an exit
\* point and every one of its dependencies is running.
C24_RunningIsWhole ==
  \A n \in Node :
    (running[n] /\ ~StopInFlight(n)) =>
      exit_point[n] # None /\ \A d \in DepsOf(n) : running[d]

\* C2: a service that a caller is inside of, or that a running service lists as
\* a dependency, is running: it is not stopped before its last holder lets go.
Held(n) ==
  \/ \E s \in Scope : Active(s) /\ target[s] = n
  \/ \E m \in Node : running[m] /\ n \in DepsOf(m)

C2_HeldStaysRunning == \A n \in Node : Held(n) => running[n]

====
